---- MODULE Spec2Model ----
(***************************************************************************)
(* Model of the robinhood client library: the session state of Trader      *)
(* (login / logout / is_logged_in), the equity order path                  *)
(* Trader._submit_order, Trader.cancel_order and the crypto order path     *)
(* CryptoTrader.place_order.                                               *)
(*                                                                         *)
(* Conventions.  Python None is the string None_ for string-valued         *)
(* arguments and the empty tuple NoNum for numeric ones.  A number is a    *)
(* pair <<kind, value>>: kind "int" / "float" is the Python type, kind     *)
(* "json" a value exactly as a JSON response delivered it.  Equity         *)
(* quantities are counted in halves of a share so that int() truncates.    *)
(* An HTTP exchange is described by the response the server will give      *)
(* (variable env); every operation returns a record that lists the         *)
(* network calls it issued, in order.                                      *)
(*                                                                         *)
(* A behaviour fixes the arguments and the server answers at the start     *)
(* (args, env) and follows one session up to its last order call           *)
(* (calls_left); hist records each call with its result.  authed is a      *)
(* history variable: TRUE from a successful login to the next logout.      *)
(* Not modelled: Trader.history, current_device_token, save/load_session   *)
(* and the read-only accessors, which no order path reads.                 *)
(***************************************************************************)
EXTENDS Integers, Sequences, FiniteSets, TLC

VARIABLES headers, auth_token, refresh_token, authed, args, env, calls_left, hist

vars == <<headers, auth_token, refresh_token, authed, args, env, calls_left, hist>>

(***************************************************************************)
(* Bounds of the model.                                                    *)
(***************************************************************************)
MaxPrice == 1
MaxStop == 1
MaxQty2 == 2

None_ == "<None>"
NoNum == <<>>

Val(x) == x[2]
PyInt(v) == <<"int", v>>

(***************************************************************************)
(* str(), str.lower(), str.upper(), float(), int() on the values used.     *)
(***************************************************************************)
Str(x) == IF x = None_ THEN "None" ELSE x

Lower(s) ==
  CASE s = "None" -> "none"
    [] s = "LIMIT" -> "limit"
    [] s = "Market" -> "market"
    [] s = "STOP" -> "stop"
    [] s = "GFD" -> "gfd"
    [] s = "Buy" -> "buy"
    [] s = "SELL" -> "sell"
    [] OTHER -> s

Upper(s) ==
  CASE s = "aapl" -> "AAPL"
    [] s = "Aapl" -> "AAPL"
    [] s = "msft" -> "MSFT"
    [] s = "btc" -> "BTC"
    [] s = "None" -> "NONE"
    [] OTHER -> s

Float(x) == <<"float", Val(x)>>

\* int() of a quantity given in halves: truncation toward zero, in whole shares.
IntOfHalves(h) == IF h >= 0 THEN h \div 2 ELSE 0 - ((0 - h) \div 2)

(***************************************************************************)
(* Exceptions and results.                                                 *)
(***************************************************************************)
NoPayload == <<>>

Raise(exc, msg, calls) ==
  [status |-> "raised", exc |-> exc, msg |-> msg, calls |-> calls, payload |-> NoPayload]

Return(value, calls, payload) ==
  [status |-> "returned", exc |-> "-", msg |-> value, calls |-> calls, payload |-> payload]

(***************************************************************************)
(* Session: Trader.__init__, login, logout, is_logged_in.                  *)
(***************************************************************************)
is_logged_in(h) == "Authorization" \in DOMAIN h

SetHeader(h, k, v) == [x \in DOMAIN h \cup {k} |-> IF x = k THEN v ELSE h[x]]

\* The POST to the login endpoint answers "tokens" (access and refresh token),
\* "no_tokens" (login returns False) or with an HTTP error (login raises).  An
\* answer "mfa_required" makes login call itself again without touching the
\* session, so final is the answer to the last of these calls.
login(final) ==
  /\ calls_left > 0
  /\ IF final = "tokens"
       THEN /\ auth_token' = "access"
            /\ refresh_token' = "refresh"
            /\ headers' = SetHeader(headers, "Authorization", "Bearer access")
            /\ authed' = TRUE
       ELSE UNCHANGED <<auth_token, refresh_token, headers, authed>>
  /\ UNCHANGED <<args, env, calls_left, hist>>

Login == \E final \in {"tokens", "no_tokens", "http_error"} : login(final)

\* The POST to the logout endpoint answers "ok" or with an HTTP error status
\* (warned about, then ignored), or the transport fails ("conn_error": the
\* exception leaves logout before the session is touched).
logout(resp) ==
  /\ calls_left > 0
  /\ IF resp = "conn_error"
       THEN UNCHANGED <<headers, auth_token, authed>>
       ELSE /\ headers' = SetHeader(headers, "Authorization", None_)
            /\ auth_token' = None_
            /\ authed' = FALSE
  /\ UNCHANGED <<refresh_token, args, env, calls_left, hist>>

Logout == \E resp \in {"ok", "http_error", "conn_error"} : logout(resp)

(***************************************************************************)
(* Server answers used by the equity order path.                           *)
(***************************************************************************)
Rec(sym, url) == [symbol |-> sym, url |-> url]

\* The 'results' member of the instruments answer.  instrument() hands back
\* results[0] and _submit_order iterates over it: a list of instrument records
\* is iterated record by record, a single record (a dict) key by key.
InstrumentList == <<Rec("MSFT", "u_msft"), Rec("aapl", "u_aapl_lc"), Rec("AAPL", "u_aapl")>>
OtherList == <<Rec("MSFT", "u_msft")>>

InstrumentAnswers ==
  { [status |-> "http_error", results |-> <<>>],
    [status |-> "ok", results |-> <<>>],
    [status |-> "ok", results |-> <<[kind |-> "dict", items |-> <<Rec("AAPL", "u_aapl")>>]>>],
    [status |-> "ok", results |-> <<[kind |-> "list", items |-> OtherList]>>],
    [status |-> "ok", results |-> <<[kind |-> "list", items |-> InstrumentList]>>] }

BidPrice == <<"json", 5>>

\* An answer that is never asked for (an earlier call failed) is fixed to "ok".
OrderEnvs ==
  { e \in [quote : {"ok", "http_error"}, instr : InstrumentAnswers,
           acct : {"ok", "http_error"}, post : {"ok", "http_error"}] :
      /\ e.quote # "ok" => e.instr.status = "ok" /\ e.instr.results = <<>>
      /\ (e.quote # "ok" \/ e.instr.status # "ok" \/ e.instr.results = <<>>
            \/ e.instr.results[1].kind # "list" \/ e.instr.results[1].items # InstrumentList)
           => e.acct = "ok"
      /\ e.acct # "ok" => e.post = "ok" }

Symbols == {None_, "aapl", "AAPL"}

Prices == {NoNum} \cup {PyInt(v) : v \in 0..MaxPrice}
StopPrices == {NoNum} \cup {PyInt(v) : v \in 0..MaxStop}
Quantities == {NoNum} \cup {<<"halves", h>> : h \in (0 - MaxQty2)..MaxQty2}

OrderArgs ==
  [order_type : {None_, "market", "LIMIT", "stop"},
   time_in_force : {None_, "GFD"},
   trigger : {None_, "immediate", "STOP"},
   price : Prices,
   stop_price : StopPrices,
   quantity : Quantities,
   side : {None_, "Buy"}]

(***************************************************************************)
(* Trader.quote, Trader.instrument and the account lookup.                 *)
(***************************************************************************)
quote_skipped(stock, e) ==
  IF stock = None_ THEN [ok |-> FALSE, exc |-> "TypeError", calls |-> <<>>]
  ELSE [ok |-> TRUE, exc |-> "-", calls |-> <<>>]

\* quote(stock): ",".join([stock]) raises TypeError for None before any request;
\* _req_get raises for an HTTP error status.
quote(stock, e) ==
  IF stock = None_ THEN [ok |-> FALSE, exc |-> "TypeError", calls |-> <<>>]
  ELSE IF e.quote # "ok" THEN [ok |-> FALSE, exc |-> "HTTPError", calls |-> <<"quotes">>]
  ELSE [ok |-> TRUE, exc |-> "-", calls |-> <<"quotes">>]

\* instrument(symbol): one GET, then ['results'][0].
instrument(symbol, e) ==
  IF e.instr.status # "ok" THEN [ok |-> FALSE, exc |-> "HTTPError", value |-> <<>>]
  ELSE IF e.instr.results = <<>> THEN [ok |-> FALSE, exc |-> "IndexError", value |-> <<>>]
  ELSE [ok |-> TRUE, exc |-> "-", value |-> <<e.instr.results[1]>>]

\* get_account(): Trader defines account() but no get_account(); the lookup is
\* taken from the specification: one account read that yields the account's url.
get_account(e) ==
  IF e.acct # "ok" THEN [ok |-> FALSE, exc |-> "HTTPError", url |-> None_]
  ELSE [ok |-> TRUE, exc |-> "-", url |-> "u_account"]

(***************************************************************************)
(* Trader._submit_order, piece by piece.                                   *)
(***************************************************************************)
\* The loop over the instrument records: the url of the first record whose
\* symbol equals the wanted one, both upper-cased; None when there is none.
RECURSIVE match_instrument_exact(_, _)
match_instrument_exact(items, symbol) ==
  IF items = <<>> THEN None_
  ELSE IF Head(items).symbol = symbol THEN Head(items).url
  ELSE match_instrument_exact(Tail(items), symbol)

RECURSIVE match_instrument(_, _)
match_instrument(items, symbol) ==
  IF items = <<>> THEN None_
  ELSE IF Upper(Head(items).symbol) = Upper(symbol) THEN Head(items).url
  ELSE match_instrument(Tail(items), symbol)

\* Lines 446-450: only when order_type and price are both None.
infer_order_type(order_type, price, stop_price) ==
  IF order_type = None_ /\ price = NoNum
    THEN (IF stop_price = NoNum THEN "market" ELSE "limit")
    ELSE order_type

\* Lines 458-459.
check_order_type(order_type) ==
  IF order_type # "market" /\ order_type # "limit"
    THEN "Invalid order_type in call to submit_order"
    ELSE "ok"

check_limit_price_unsigned(order_type, price) ==
  IF order_type = "limit" /\ price = NoNum
    THEN "Limit order has no price in call to submit_order"
    ELSE "ok"

\* Lines 461-465.
check_limit_price(order_type, price) ==
  IF order_type # "limit" THEN "ok"
  ELSE IF price = NoNum THEN "Limit order has no price in call to submit_order"
  ELSE IF Val(price) <= 0 THEN "Price must be positive number in call to submit_order"
  ELSE "ok"

\* Lines 467-471.
check_stop_trigger(trigger, stop_price) ==
  IF trigger # "stop" THEN "ok"
  ELSE IF stop_price = NoNum THEN "Stop order has no stop_price in call to submit_order"
  ELSE IF Val(stop_price) <= 0
    THEN "Stop_price must be positive number in call to submit_order"
  ELSE "ok"

check_stop_pairing_off(trigger, stop_price) == "ok"

\* Lines 473-475.
check_stop_pairing(trigger, stop_price) ==
  IF stop_price # NoNum /\ trigger # "stop"
    THEN "Stop price set for non-stop order in call to submit_order"
    ELSE "ok"

\* Lines 481-483.
check_market_price(order_type, price) ==
  IF price # NoNum /\ Lower(order_type) = "market"
    THEN "Market order has price limit in call to submit_order"
    ELSE "ok"

check_quantity_negative(quantity) ==
  IF quantity = NoNum THEN "No quantity specified in call to submit_order"
  ELSE IF IntOfHalves(Val(quantity)) < 0
    THEN "Quantity must be positive number in call to submit_order"
  ELSE "ok"

\* Lines 488-494.
check_quantity(quantity) ==
  IF quantity = NoNum THEN "No quantity specified in call to submit_order"
  ELSE IF IntOfHalves(Val(quantity)) <= 0
    THEN "Quantity must be positive number in call to submit_order"
  ELSE "ok"

RECURSIVE FirstError(_)
FirstError(msgs) ==
  IF msgs = <<>> THEN "ok"
  ELSE IF Head(msgs) # "ok" THEN Head(msgs)
  ELSE FirstError(Tail(msgs))

\* Lines 458-494: the checks in the order of the code; the first that fails
\* raises.  Lines 477-479 repeat the limit-without-price check of line 462 and
\* lines 440-441 follow a raise for the same condition: neither can act.
validate(order_type, trigger, price, stop_price, quantity) ==
  FirstError(<<check_order_type(order_type),
               check_limit_price(order_type, price),
               check_stop_trigger(trigger, stop_price),
               check_stop_pairing(trigger, stop_price),
               check_market_price(order_type, price),
               check_quantity(quantity)>>)

price_as_given(price) == IF price # NoNum THEN price ELSE NoNum

\* Lines 481-486: the price sent.
default_price(price) == IF price # NoNum THEN Float(price) ELSE BidPrice

NumFields == {"price", "stop_price", "quantity"}

\* Lines 496-511: the fields whose value is not None.
build_payload(full) ==
  LET present == {f \in DOMAIN full :
                    IF f \in NumFields THEN full[f] # NoNum ELSE full[f] # None_}
  IN [f \in present |-> full[f]]

submit_order(h, symbol, a, e) ==
  IF ~is_logged_in(h) THEN Raise("Exception", "Login required for caller", <<>>)
  ELSE LET q == quote(symbol, e) IN
  IF ~q.ok THEN Raise(q.exc, "quote", q.calls)
  ELSE IF symbol = None_
    THEN Raise("ValueError",
               "Neither instrument_URL nor symbol were passed to submit_order", q.calls)
  ELSE LET ins == instrument(symbol, e)
           c2 == Append(q.calls, "instruments") IN
  IF ~ins.ok THEN Raise(ins.exc, "instrument", c2)
  ELSE IF ins.value[1].kind = "dict"
    THEN Raise("TypeError", "string indices must be integers", c2)
  ELSE LET instrument_URL == match_instrument(ins.value[1].items, symbol) IN
  IF instrument_URL = None_
    THEN Raise("ValueError", "instrument_URL could not be defined. Symbol not found", c2)
  ELSE IF a.side = None_
    THEN Raise("ValueError", "Order is neither buy nor sell in call to submit_order", c2)
  ELSE LET order_type == Lower(Str(infer_order_type(a.order_type, a.price, a.stop_price)))
           time_in_force == Lower(Str(a.time_in_force))
           trigger == Lower(Str(a.trigger))
           side == Lower(Str(a.side))
           err == validate(order_type, trigger, a.price, a.stop_price, a.quantity) IN
  IF err # "ok" THEN Raise("ValueError", err, c2)
  ELSE LET acct == get_account(e)
           c3 == Append(c2, "accounts") IN
  IF ~acct.ok THEN Raise(acct.exc, "account", c3)
  ELSE LET payload == build_payload(
             [account |-> acct.url,
              instrument |-> instrument_URL,
              symbol |-> Upper(Str(symbol)),
              type |-> order_type,
              time_in_force |-> time_in_force,
              trigger |-> trigger,
              price |-> default_price(a.price),
              stop_price |-> a.stop_price,
              quantity |-> PyInt(IntOfHalves(Val(a.quantity))),
              side |-> side])
           c4 == Append(c3, "orders") IN
  IF e.post # "ok"
    THEN [Raise("HTTPError", "orders", c4) EXCEPT !.payload = payload]
    ELSE Return("response", c4, payload)

\* One call of _submit_order with the arguments and the server answers of this
\* behaviour; the symbol is chosen with the call.
SubmitOrder ==
  /\ calls_left > 0
  /\ \E symbol \in Symbols :
       hist' = Append(hist, [op |-> "_submit_order", symbol |-> symbol, authed |-> authed,
                             res |-> submit_order(headers, symbol, args, env)])
  /\ calls_left' = calls_left - 1
  /\ UNCHANGED <<headers, auth_token, refresh_token, authed, args, env>>

InitSession ==
  /\ headers = [k \in {"User-Agent"} |-> "robinhood/823 (iPhone; iOS 7.1.2; Scale/2.00)"]
  /\ auth_token = None_
  /\ refresh_token = None_
  /\ authed = FALSE
  /\ hist = <<>>

Init ==
  /\ InitSession
  /\ args \in OrderArgs
  /\ env \in OrderEnvs
  /\ calls_left = 1

Next == Login \/ Logout \/ SubmitOrder

Spec == Init /\ [][Next]_vars

\* Two calls of _submit_order in one behaviour, on a smaller set of arguments.
PairArgs ==
  {a \in OrderArgs : a.time_in_force = None_ /\ a.side = "Buy" /\ a.order_type # "stop"}

InitPair ==
  /\ InitSession
  /\ args \in PairArgs
  /\ env \in OrderEnvs
  /\ calls_left = 2

SpecPair == InitPair /\ [][Next]_vars

(***************************************************************************)
(* Trader.cancel_order.                                                    *)
(***************************************************************************)
\* order_id is a str, a dict holding the id, or anything else.  The GET of the
\* order is not followed by raise_for_status, so an error status only shows as
\* a body without a cancel link; a transport failure leaves as it is.
CancelArgs ==
  [kind : {"str", "dict", "other"}, id : {"o1", "o2"}]

CancelEnvs ==
  { e \in [fetch : {"ok", "not_found", "conn_error"}, cancel : {None_, "u_cancel"},
           post : {"ok", "http_error"}] :
      /\ e.fetch # "ok" => e.cancel = None_
      /\ e.cancel = None_ => e.post = "ok" }

\* Lines 530-542 and 546-560: fetch the order, and post to its cancel link when
\* it has one; "fall" when the block ends without return or raise.
fetch_and_cancel(id, e) ==
  IF e.fetch = "conn_error" THEN Raise("ConnectionError", "orders", <<"order">>)
  ELSE IF e.cancel = None_ THEN [Return("-", <<"order">>, NoPayload) EXCEPT !.status = "fall"]
  ELSE IF e.post # "ok"
    THEN Raise("ValueError", "Failed to cancel order ID", <<"order", "cancel">>)
  ELSE Return("response", <<"order", "cancel">>, NoPayload)

cancel_order(order_id, e) ==
  LET first == IF order_id.kind = "str"
                 THEN fetch_and_cancel(order_id.id, e)
                 ELSE [Return("-", <<>>, NoPayload) EXCEPT !.status = "fall"]
  IN IF first.status # "fall" THEN first
     ELSE IF order_id.kind = "dict"
       THEN LET second == fetch_and_cancel(order_id.id, e)
            IN IF second.status # "fall" THEN second
               ELSE Return("None", second.calls, NoPayload)
     ELSE IF order_id.kind # "str" \/ order_id.kind # "dict"
       THEN Raise("ValueError",
                  "Cancelling orders requires a valid order_id string or open order dictionary",
                  first.calls)
     ELSE Raise("ValueError", "Unable to cancel order ID", first.calls)

CancelOrder ==
  /\ calls_left > 0
  /\ hist' = Append(hist, [op |-> "cancel_order", symbol |-> None_, authed |-> authed,
                           res |-> cancel_order(args, env)])
  /\ calls_left' = calls_left - 1
  /\ UNCHANGED <<headers, auth_token, refresh_token, authed, args, env>>

InitCancel ==
  /\ InitSession
  /\ args \in CancelArgs
  /\ env \in CancelEnvs
  /\ calls_left = 1

NextCancel == Login \/ Logout \/ CancelOrder

SpecCancel == InitCancel /\ [][NextCancel]_vars

(***************************************************************************)
(* CryptoTrader.place_order, buy, sell.                                    *)
(***************************************************************************)
MaxNotional == 2
MaxCryptoQty == 1
Scale8 == 100000000

\* bool(x) of a numeric argument: None and zero are false; a formatted string
\* (kind "str8" or "fmt") is never empty, so it is true.
Truthy(x) == x # NoNum /\ (x[1] \in {"str8", "fmt"} \/ x[2] # 0)

\* The transport, the quote object, the pair table and the price formatter
\* belong to the wrapped trader and to modules outside src/; they follow the
\* specification: a static symbol -> pair id table, a quote with an ask price,
\* a price formatted to the instrument's precision (a string), an account id.
crypto_pairs == [s \in {"BTC", "ETH"} |-> IF s = "BTC" THEN "pair_btc" ELSE "pair_eth"]

fprice(price) == <<"fmt", Val(price)>>

crypto_quote(symbol, e) ==
  IF e.quote # "ok" THEN [ok |-> FALSE, exc |-> "HTTPError", ask |-> NoNum]
  ELSE [ok |-> TRUE, exc |-> "-", ask |-> e.ask]

crypto_account(e) ==
  IF e.acct # "ok" THEN [ok |-> FALSE, exc |-> "HTTPError", id |-> None_]
  ELSE [ok |-> TRUE, exc |-> "-", id |-> "acct_1"]

precondition_either(quantity, price_quantity) == Truthy(quantity) \/ Truthy(price_quantity)

\* Line 97: assert bool(quantity) ^ bool(price_quantity).
precondition(quantity, price_quantity) == Truthy(quantity) # Truthy(price_quantity)

\* Quotients are kept as a whole part and a count of 1e-8 units below one,
\* <<"str8", whole, units>>, and divided in two steps of four digits.
Scale4 == 10000

Fmt8_truncated(price_quantity, price) ==
  LET d == Val(price)
      r0 == Val(price_quantity) % d
      a == (r0 * Scale4) \div d
      r1 == (r0 * Scale4) % d
  IN <<"str8", Val(price_quantity) \div d, a * Scale4 + ((r1 * Scale4) \div d)>>

\* Line 105: "{0:.8f}".format(price_quantity / price): the quotient rounded to
\* the nearest multiple of 1e-8 (a tie, which the binary quotient decides in
\* Python, goes to the even neighbour here).
Fmt8(price_quantity, price) ==
  LET d == Val(price)
      w == Val(price_quantity) \div d
      r0 == Val(price_quantity) % d
      a == (r0 * Scale4) \div d
      r1 == (r0 * Scale4) % d
      b == (r1 * Scale4) \div d
      r2 == (r1 * Scale4) % d
      low == a * Scale4 + b
      units == IF 2 * r2 > d THEN low + 1
               ELSE IF 2 * r2 = d THEN low + (low % 2)
               ELSE low
  IN IF units = Scale8 THEN <<"str8", w + 1, 0>> ELSE <<"str8", w, units>>

\* The text of a value formatted by "{0:.8f}": the digits of the whole part, a
\* point, and Decimals8 digits.
Decimals8 == 8

DigitChars == <<"0", "1", "2", "3", "4", "5", "6", "7", "8", "9">>

RECURSIVE NatDigits(_)
NatDigits(n) ==
  IF n < 10 THEN <<DigitChars[n + 1]>>
  ELSE Append(NatDigits(n \div 10), DigitChars[(n % 10) + 1])

RECURSIVE FixedDigits(_, _)
FixedDigits(n, k) ==
  IF k = 0 THEN <<>>
  ELSE Append(FixedDigits(n \div 10, k - 1), DigitChars[(n % 10) + 1])

Text8(x) == NatDigits(x[2]) \o <<".">> \o FixedDigits(x[3], Decimals8)

crypto_payload_market_unpriced(full) ==
  LET kept == {f \in DOMAIN full :
                 /\ IF f \in NumFields THEN Truthy(full[f])
                    ELSE full[f] # None_ /\ full[f] # ""
                 /\ ~(f = "price" /\ full.type = "market")}
  IN [f \in kept |-> full[f]]

\* Line 121: the fields whose value is true.
crypto_payload(full) ==
  LET kept == {f \in DOMAIN full :
                 IF f \in NumFields THEN Truthy(full[f])
                 ELSE full[f] # None_ /\ full[f] # ""}
  IN [f \in kept |-> full[f]]

place_order(symbol, price_quantity, quantity, price, side, time_in_force, e) ==
  IF ~precondition(quantity, price_quantity) THEN Raise("AssertionError", "-", <<>>)
  ELSE IF symbol = None_ THEN Raise("AttributeError", "upper", <<>>)
  ELSE LET sym == Upper(symbol)
           order == IF Truthy(price) THEN "limit" ELSE "market" IN
  IF sym \notin DOMAIN crypto_pairs THEN Raise("KeyError", sym, <<>>)
  ELSE LET tif == IF time_in_force = None_ \/ time_in_force = "" THEN "gtc" ELSE time_in_force
           asked == ~Truthy(price)
           q == crypto_quote(sym, e)
           c1 == IF asked THEN <<"quotes">> ELSE <<>> IN
  IF asked /\ ~q.ok THEN Raise(q.exc, "quote", c1)
  ELSE LET used == IF asked THEN q.ask ELSE price
           computed == ~Truthy(quantity) /\ Truthy(price_quantity) IN
  IF computed /\ Val(used) = 0 THEN Raise("ZeroDivisionError", "-", c1)
  ELSE LET qty == IF computed THEN Fmt8(price_quantity, used) ELSE quantity
           acct == crypto_account(e)
           c2 == Append(c1, "accounts") IN
  IF ~acct.ok THEN Raise(acct.exc, "account", c2)
  ELSE LET payload == crypto_payload(
             [type |-> order,
              side |-> side,
              quantity |-> qty,
              account_id |-> acct.id,
              currency_pair_id |-> crypto_pairs[sym],
              price |-> fprice(used),
              ref_id |-> "uuid4",
              time_in_force |-> tif])
           c3 == Append(c2, "orders") IN
  IF e.post # "ok"
    THEN [Raise("HTTPError", "orders", c3) EXCEPT !.payload = payload]
    ELSE Return("CryptoOrder", c3, payload)

\* Lines 44-65 and 67-88.
buy(symbol, price_quantity, quantity, price, time_in_force, e) ==
  place_order(symbol, price_quantity, quantity, price, "buy", time_in_force, e)

sell(symbol, price_quantity, quantity, price, time_in_force, e) ==
  place_order(symbol, price_quantity, quantity, price, "sell", time_in_force, e)

CryptoArgs ==
  [symbol : {None_, "btc", "BTC", "xyz"},
   price_quantity : {NoNum, PyInt(100)} \cup {PyInt(v) : v \in 0..MaxNotional},
   quantity : {NoNum} \cup {PyInt(v) : v \in 0..MaxCryptoQty},
   price : Prices,
   side : {None_, "buy"},
   time_in_force : {None_, "gfd"}]

AskPrices == {<<"float", 0>>, <<"float", 3>>, <<"float", 50000>>}

CryptoEnvs ==
  { e \in [quote : {"ok", "http_error"}, ask : AskPrices,
           acct : {"ok", "http_error"}, post : {"ok", "http_error"}] :
      /\ e.quote # "ok" => e.ask = <<"float", 3>> /\ e.acct = "ok"
      /\ e.acct # "ok" => e.post = "ok" }

CryptoDone(op, res) ==
  /\ calls_left > 0
  /\ hist' = Append(hist, [op |-> op, symbol |-> args.symbol, authed |-> authed, res |-> res])
  /\ calls_left' = calls_left - 1
  /\ UNCHANGED <<headers, auth_token, refresh_token, authed, args, env>>

PlaceOrder ==
  CryptoDone("place_order",
             place_order(args.symbol, args.price_quantity, args.quantity, args.price,
                         args.side, args.time_in_force, env))

Buy ==
  CryptoDone("buy", buy(args.symbol, args.price_quantity, args.quantity, args.price,
                        args.time_in_force, env))

Sell ==
  CryptoDone("sell", sell(args.symbol, args.price_quantity, args.quantity, args.price,
                          args.time_in_force, env))

InitCrypto ==
  /\ InitSession
  /\ args \in CryptoArgs
  /\ env \in CryptoEnvs
  /\ calls_left = 1

NextCrypto == PlaceOrder \/ Buy \/ Sell

SpecCrypto == InitCrypto /\ [][NextCrypto]_vars

(***************************************************************************)
(* Vocabulary of the properties.                                           *)
(***************************************************************************)
Calls == {hist[i] : i \in DOMAIN hist}

SubmitCalls == {c \in Calls : c.op = "_submit_order"}

Wrote(c) == \E i \in DOMAIN c.res.calls : c.res.calls[i] = "orders"

Failed(c, exc) == c.res.status = "raised" /\ c.res.exc = exc

\* The quote lookup answers and the instrument search lists the symbol.
Resolvable(c) ==
  /\ c.symbol # None_
  /\ env.quote = "ok"
  /\ env.instr.status = "ok"
  /\ env.instr.results # <<>>
  /\ env.instr.results[1].kind = "list"
  /\ \E i \in DOMAIN env.instr.results[1].items :
       Upper(env.instr.results[1].items[i].symbol) = Upper(c.symbol)

\* C1: _submit_order on a client that is not authenticated (never logged in, or
\* logged out since the last successful login) raises the login-required error
\* and has issued no network call.
C1_AuthRequired ==
  \A c \in SubmitCalls :
    ~c.authed =>
      /\ Failed(c, "Exception")
      /\ c.res.msg = "Login required for caller"
      /\ c.res.calls = <<>>

\* C2: every payload that reaches the order write has a strictly positive price
\* when its type is limit, and has trigger stop and a strictly positive
\* stop_price when it carries a stop_price.
C2_PayloadConsistent ==
  \A c \in SubmitCalls :
    Wrote(c) =>
      /\ c.res.payload.type = "limit" =>
           "price" \in DOMAIN c.res.payload /\ Val(c.res.payload.price) > 0
      /\ "stop_price" \in DOMAIN c.res.payload =>
           c.res.payload.trigger = "stop" /\ Val(c.res.payload.stop_price) > 0

C2_Witness ==
  \E c \in SubmitCalls :
    /\ Wrote(c)
    /\ c.res.payload.type = "limit"
    /\ "stop_price" \in DOMAIN c.res.payload

\* C3: an authenticated call with a resolvable symbol whose quantity is unset or
\* not above zero raises ValueError and writes no order.
C3_QuantityRejected ==
  \A c \in SubmitCalls :
    (c.authed /\ Resolvable(c) /\ (args.quantity = NoNum \/ Val(args.quantity) <= 0)) =>
      Failed(c, "ValueError") /\ ~Wrote(c)

C3_Witness ==
  \E c \in SubmitCalls :
    /\ c.authed /\ Resolvable(c)
    /\ args.quantity # NoNum /\ Val(args.quantity) = 0
    /\ Failed(c, "ValueError")
    /\ c.res.msg = "Quantity must be positive number in call to submit_order"

\* C4: an authenticated call with a resolvable symbol, a side, a positive
\* quantity and a positive price, with order_type, trigger and stop_price unset,
\* emits a payload of type limit, trigger immediate and the supplied price.
C4_LimitInferred ==
  \A c \in SubmitCalls :
    (/\ c.authed /\ Resolvable(c) /\ env.acct = "ok"
     /\ args.side # None_
     /\ args.quantity # NoNum /\ Val(args.quantity) >= 2
     /\ args.price # NoNum /\ Val(args.price) > 0
     /\ args.order_type = None_ /\ args.trigger = None_ /\ args.stop_price = NoNum) =>
      /\ Wrote(c)
      /\ c.res.payload.type = "limit"
      /\ c.res.payload.trigger = "immediate"
      /\ Val(c.res.payload.price) = Val(args.price)

C5_Pre(c) ==
  /\ c.authed /\ Resolvable(c) /\ env.acct = "ok"
  /\ args.side # None_
  /\ args.order_type = None_ /\ args.price = NoNum /\ args.stop_price = NoNum

C5_Post(c) ==
  /\ Wrote(c)
  /\ c.res.payload.type = "market"
  /\ "price" \in DOMAIN c.res.payload
  /\ c.res.payload.price = BidPrice
  /\ "stop_price" \notin DOMAIN c.res.payload

\* C5 as stated: an authenticated call with a resolvable symbol, a side and a
\* positive quantity, with order_type, price and stop_price unset, emits a
\* market payload priced at the quoted bid and without stop_price.
C5_MarketDefaultsAsStated ==
  \A c \in SubmitCalls :
    (C5_Pre(c) /\ args.quantity # NoNum /\ Val(args.quantity) > 0) => C5_Post(c)

\* C5 amended: the same, for a quantity of at least one share and a trigger
\* other than stop.
C5_MarketDefaults ==
  \A c \in SubmitCalls :
    (/\ C5_Pre(c)
     /\ args.quantity # NoNum /\ Val(args.quantity) >= 2
     /\ Lower(Str(args.trigger)) # "stop") => C5_Post(c)

C5_Witness ==
  \E c \in SubmitCalls :
    /\ C5_Pre(c) /\ args.quantity # NoNum /\ Val(args.quantity) >= 2
    /\ args.trigger = None_
    /\ c.res.status = "returned"
    /\ C5_Post(c)

\* C6: an authenticated call whose symbol is None raises the ValueError for a
\* missing symbol, whatever the other arguments.
C6_MissingSymbol ==
  \A c \in SubmitCalls :
    (c.authed /\ c.symbol = None_) =>
      /\ Failed(c, "ValueError")
      /\ c.res.msg = "Neither instrument_URL nor symbol were passed to submit_order"

\* C10: two authenticated calls that differ only in the letter case of the symbol
\* end the same way and, when they write an order, send the same instrument and
\* the same upper-case symbol.
C10_CaseInsensitive ==
  \A c, d \in SubmitCalls :
    (/\ c.authed /\ d.authed
     /\ c.symbol # None_ /\ d.symbol # None_
     /\ Upper(c.symbol) = Upper(d.symbol)) =>
      /\ c.res.status = d.res.status
      /\ c.res.exc = d.res.exc
      /\ c.res.msg = d.res.msg
      /\ Wrote(c) <=> Wrote(d)
      /\ Wrote(c) =>
           /\ c.res.payload.instrument = d.res.payload.instrument
           /\ c.res.payload.symbol = d.res.payload.symbol
           /\ c.res.payload.symbol = Upper(c.symbol)

C10_Witness ==
  \E c, d \in SubmitCalls :
    /\ c.authed /\ d.authed
    /\ c.symbol = "aapl" /\ d.symbol = "AAPL"
    /\ c.res.status = "returned" /\ d.res.status = "returned"
    /\ c.res.payload.instrument = d.res.payload.instrument

\* C7: cancel_order on an id string or an order record whose order is fetched
\* but has no cancel link raises the cannot-cancel error, and cancel_order never
\* returns normally without having posted to a cancel link.
C7_NotCancellable ==
  \A c \in Calls :
    c.op = "cancel_order" =>
      /\ (args.kind \in {"str", "dict"} /\ env.fetch = "ok" /\ env.cancel = None_) =>
           Failed(c, "ValueError") /\ c.res.msg = "Unable to cancel order ID"
      /\ c.res.status = "returned" =>
           \E i \in DOMAIN c.res.calls : c.res.calls[i] = "cancel"

CryptoCalls == {c \in Calls : c.op \in {"place_order", "buy", "sell"}}

Supplied(x) == x # NoNum

\* C8 as stated: place_order, buy and sell fail the precondition, before any
\* network call, when quantity and price_quantity are both supplied or both
\* missing, and pass it when exactly one is supplied.
C8_ExactlyOneSupplied ==
  \A c \in CryptoCalls :
    /\ (Supplied(args.quantity) = Supplied(args.price_quantity)) =>
         Failed(c, "AssertionError") /\ c.res.calls = <<>>
    /\ (Supplied(args.quantity) # Supplied(args.price_quantity)) =>
         ~Failed(c, "AssertionError")

\* C8 amended: the same with "supplied" read as "set and not zero".
C8_ExactlyOneTruthy ==
  \A c \in CryptoCalls :
    /\ (Truthy(args.quantity) = Truthy(args.price_quantity)) =>
         Failed(c, "AssertionError") /\ c.res.calls = <<>>
    /\ (Truthy(args.quantity) # Truthy(args.price_quantity)) =>
         ~Failed(c, "AssertionError")

C8_Witness ==
  \E c \in CryptoCalls :
    /\ c.op = "buy"
    /\ Truthy(args.quantity) /\ Truthy(args.price_quantity)
    /\ Failed(c, "AssertionError")
    /\ c.res.calls = <<>>

\* C9 as stated: a call without a price writes a market order whose payload has
\* no price field.
C9_NoPriceInMarketPayload ==
  \A c \in CryptoCalls :
    (args.price = NoNum /\ Wrote(c)) => "price" \notin DOMAIN c.res.payload

\* C9 amended: a call without a price that meets a positive live ask writes a
\* market order whose payload carries the formatted ask as its price; the same
\* ask divides price_quantity when the quantity is computed.
C9_MarketPayloadCarriesAsk ==
  \A c \in CryptoCalls :
    (args.price = NoNum /\ Val(env.ask) > 0 /\ Wrote(c)) =>
      /\ c.res.payload.type = "market"
      /\ c.res.calls[1] = "quotes"
      /\ "price" \in DOMAIN c.res.payload
      /\ c.res.payload.price = fprice(env.ask)
      /\ ~Truthy(args.quantity) => c.res.payload.quantity = Fmt8(args.price_quantity, env.ask)

C9_Witness ==
  \E c \in CryptoCalls :
    /\ args.price = NoNum /\ args.quantity = NoNum
    /\ c.res.status = "returned"
    /\ c.res.payload.type = "market"
    /\ c.res.payload.price = <<"fmt", 3>>
    /\ c.res.payload.quantity = <<"str8", 0, 66666667>>

\* C11: in every payload sent to the order write the trigger is immediate or
\* stop and the time_in_force is gfd or gtc, a default standing in for an
\* argument the caller left unset.
C11_EnumFields ==
  \A c \in SubmitCalls :
    Wrote(c) =>
      /\ c.res.payload.trigger \in {"immediate", "stop"}
      /\ c.res.payload.time_in_force \in {"gfd", "gtc"}

\* The price the quantity is computed from: the caller's price when it is true,
\* otherwise the live ask.
C12_EffectivePrice == IF Truthy(args.price) THEN args.price ELSE env.ask

\* C12: with price_quantity set and quantity unset, the quantity sent is
\* price_quantity divided by the effective price, as a string with exactly 8
\* decimal places: multiplied back by the price it misses price_quantity by at
\* most half of 1e-8 of the price.  (r is what the whole part leaves of
\* price_quantity; the product is taken four digits at a time.)
C12_ComputedQuantity ==
  \A c \in CryptoCalls :
    (Truthy(args.price_quantity) /\ ~Truthy(args.quantity) /\ Wrote(c)) =>
      LET q == c.res.payload.quantity
          d == Val(C12_EffectivePrice)
          r == Val(args.price_quantity) - q[2] * d
          t == (q[3] \div Scale4) * d - r * Scale4
          miss == Scale4 * t + (q[3] % Scale4) * d
          text == Text8(q)
      IN /\ q[1] = "str8"
         /\ q[3] >= 0 /\ q[3] < Scale8
         /\ t <= d /\ 0 - t <= d
         /\ 2 * miss <= d /\ 0 - 2 * miss <= d
         /\ \E i \in DOMAIN text : text[i] = "." /\ Len(text) - i = Decimals8

C12_Witness ==
  \E c \in CryptoCalls :
    /\ args.price_quantity = PyInt(100) /\ args.quantity = NoNum /\ args.price = NoNum
    /\ env.ask = <<"float", 50000>>
    /\ c.op = "buy"
    /\ c.res.status = "returned"
    /\ c.res.payload.quantity = <<"str8", 0, 200000>>
    /\ Text8(c.res.payload.quantity) = <<"0", ".", "0", "0", "2", "0", "0", "0", "0", "0">>

Count(calls, name) == Cardinality({i \in DOMAIN calls : calls[i] = name})

\* C13: in an authenticated attempt the first network call is the quote lookup;
\* the instrument search is made at most once, and exactly once whenever the
\* quote lookup answered, also when a later check rejects the order; an order
\* write is the last network call.
C13_CallOrder ==
  \A c \in SubmitCalls :
    c.authed =>
      /\ c.res.calls # <<>> => c.res.calls[1] = "quotes"
      /\ Count(c.res.calls, "quotes") <= 1
      /\ Count(c.res.calls, "instruments") <= 1
      /\ (c.symbol # None_ /\ env.quote = "ok") => Count(c.res.calls, "instruments") = 1
      /\ Failed(c, "ValueError") => Count(c.res.calls, "instruments") = 1
      /\ Wrote(c) => c.res.calls[Len(c.res.calls)] = "orders"

C13_Witness ==
  \E c \in SubmitCalls :
    /\ c.authed
    /\ Failed(c, "ValueError")
    /\ c.res.msg = "Stop price set for non-stop order in call to submit_order"
    /\ c.res.calls = <<"quotes", "instruments">>

\* What lines 443-494 demand of the arguments, stated on the arguments.
C14_ArgsValid ==
  LET type == IF args.order_type = None_ /\ args.price = NoNum
                THEN (IF args.stop_price = NoNum THEN "market" ELSE "limit")
                ELSE Lower(Str(args.order_type))
      stop == Lower(Str(args.trigger)) = "stop"
  IN /\ args.side # None_
     /\ type \in {"market", "limit"}
     /\ type = "limit" => args.price # NoNum /\ Val(args.price) > 0
     /\ type = "market" => args.price = NoNum
     /\ stop <=> args.stop_price # NoNum
     /\ stop => Val(args.stop_price) > 0
     /\ args.quantity # NoNum /\ Val(args.quantity) >= 2

\* C14: an order write is issued only when every check has passed and the
\* instrument is resolved; a call ending in the login-required error or in a
\* ValueError (bad argument, symbol not found) has written no order; a call that
\* returns has written exactly one.
C14_WriteOnlyWhenValid ==
  \A c \in SubmitCalls :
    /\ Count(c.res.calls, "orders") <= 1
    /\ Wrote(c) =>
         /\ C14_ArgsValid
         /\ Resolvable(c)
         /\ Count(c.res.calls, "instruments") = 1
         /\ c.res.payload.instrument \in {"u_aapl_lc", "u_aapl"}
    /\ (Failed(c, "Exception") \/ Failed(c, "ValueError")) => ~Wrote(c)
    /\ c.res.status = "returned" => Count(c.res.calls, "orders") = 1

C14_Witness ==
  \E c \in SubmitCalls :
    /\ c.res.status = "returned"
    /\ Count(c.res.calls, "orders") = 1
    /\ C14_ArgsValid
    /\ args.stop_price # NoNum

====
